---- MODULE Spec2Model ----
(***************************************************************************)
(* The cron bot of tax-spl (scripts/cron-bot/src/main.rs): the loop of     *)
(* main, the cycle body process_job (harvest, withdraw, swap) and          *)
(* distribute_rewards with its spawned transfer tasks, run against a small *)
(* model of the chain accounts the bot reads and writes.                   *)
(*                                                                         *)
(* One action is one stretch of code between two suspension points (an     *)
(* awaited RPC read or a submitted transaction).  A `?` that propagates an *)
(* error returns to the match in main, which logs and waits for the next   *)
(* tick; a panic on the main task ends the process.                        *)
(***************************************************************************)
EXTENDS Integers, Sequences, FiniteSets, TLC

\* ------------------------------------------------------------- bounds ---
\* Width, in bits, that stands for the 64 bits of u64 (TLC integers are 32
\* bits wide, so the width is scaled down; every amount stays below 2^width).
U64Bits == 4
\* Token accounts returned by one get_program_accounts snapshot.
MaxAccounts == 2
\* Cycles the loop of main runs.
MaxCycles == 2
\* Largest raw amount the modelled chain accounts hold.
MaxRaw == 12

\* ---------------------------------------------------------- constants ---
\* let slippage_tolerance = 0.25, as a percentage.
SLIPPAGE_PCT == 25
\* const BATCH_SIZE: usize = 25
BATCH_SIZE == 25

NoValue == 0 - 1

RECURSIVE Pow(_, _)
Pow(b, e) == IF e = 0 THEN 1 ELSE b * Pow(b, e - 1)

U64Mod == Pow(2, U64Bits)

\* `x as u64` of a wider integer: the low 64 bits.
AsU64(x) == x % U64Mod

\* UiTokenAmount.ui_amount: amount / 10^decimals as an f64, here with the
\* truncation toward zero of the `as u64` that every use applies to it.
UiAmount(raw, dec) == raw \div Pow(10, dec)

\* .ui_amount.unwrap_or(0.0) as u64: ui_amount is an Option, None when the
\* node leaves the field out.
UiAmountOrZero(present, raw, dec) == IF present THEN UiAmount(raw, dec) ELSE 0

\* (x as f64 * (1.0 - slippage)) as u64
ApplySlippage(x) == (x * (100 - SLIPPAGE_PCT)) \div 100

\* in_amount * reserve_out / (reserve_in + in_amount), in u128, then as u64
ConstantProduct(in_amount, reserve_in, reserve_out) ==
    AsU64((in_amount * reserve_out) \div (reserve_in + in_amount))

\* Strings that Pubkey::from_str accepts: base58 text of a 32 byte key.  The
\* literal "YOUR_TAX_PROGRAM_ID_HERE" holds 'O' and '_', which are outside
\* the base58 alphabet, and so is not among them.
WellFormedPubkeys ==
    { "TokenMintAddress", "DeployedTaxProgramId",
      "CLMM9tUoggJu2wam25TCwC6eWkw1mnbn7nryKyswgTNB",
      "TokenkegQfeZyiNwAJbNbGKPFXCWuBvf9Ss623VQ5DA",
      "TokenzQdBNbLqP5VEhdkAS6EPFLC1PHnBqCXEpPxuEb",
      "ATokenGPvbdGVxr1b2hvZbsiqW5xWH25efTNsLJA8knL",
      "MemoSq4gqABAXKb96qnH8TysNcWxMyWCqXgDLGmfcHr" }

PubkeyFromStr(s) == s \in WellFormedPubkeys

\* The program ids process_job parses after the token mint, in order.  The
\* first one is the tax program id literal of the build.
ProgramIdLiterals(tax_id) ==
    << tax_id,
       "CLMM9tUoggJu2wam25TCwC6eWkw1mnbn7nryKyswgTNB",
       "TokenkegQfeZyiNwAJbNbGKPFXCWuBvf9Ss623VQ5DA",
       "TokenzQdBNbLqP5VEhdkAS6EPFLC1PHnBqCXEpPxuEb",
       "ATokenGPvbdGVxr1b2hvZbsiqW5xWH25efTNsLJA8knL",
       "MemoSq4gqABAXKb96qnH8TysNcWxMyWCqXgDLGmfcHr" >>

\* Keypair::from_base58_string unwraps the decoding: a malformed string
\* panics instead of returning an error.
KeypairFromBase58Panics(s) == s # "WellFormedKey"

\* ------------------------------------------------------------- inputs ---
KeyValues == {"unset", "malformed", "WellFormedKey"}
MintValues == {"unset", "not-base58", "TokenMintAddress"}
IntervalValues == {"unset", "not-a-number", "0", "3600"}
\* The tax program id of the build: the literal of the source, or the id the
\* deployer puts in its place.
TaxIdValues == {"YOUR_TAX_PROGRAM_ID_HERE", "DeployedTaxProgramId"}
\* The entry of raydium_data["official"] that holds the token mint: none, or
\* one with the token mint as baseMint or as quoteMint.
PoolValues == {"none", "base", "quote"}

\* Decimals of the two mints.
DecimalsValues == {0, 1}
\* One whole token of a mint with one decimal, in raw units.
Whole == Pow(10, 1)
\* Fees that accrue between two cycles, swap outputs, vault reserves, raw
\* supplies and holder balances, in raw units.
FeeValues == {0, 1, Whole}
OutValues == {0, 2, Whole}
ReserveValues == {1, Whole}
SupplyValues == {1, 3, Whole + 2}
BalanceValues == {0, 1, Whole}
Owners == {"alice", "bob"}

VARIABLES
    \* configuration, fixed for the life of the process
    sol_admin_private_key, mint_address, interval_secs, tax_program_id,
    raydium_data,
    \* the chain
    decimals, reward_decimals,     \* decimals of the taxed and the other mint
    withheld,                      \* fees withheld in holder accounts
    mint_withheld,                 \* fees harvested into the mint
    admin_bal,                     \* raw balance of admin_ata (taxed token)
    reward_bal,                    \* raw balance of the admin account of the other mint
    atas,                          \* (owner, mint) pairs whose token account exists
    \* the process
    pc,
    last_log,                      \* what main logged for the cycle that ended last
    cycle,
    join_error,                    \* the task whose error `result??` returned (0: none)
    result,                        \* what process_job returned
    \* locals of process_job / distribute_rewards of the running cycle
    harvested_amount, input_token, output_token,
    amount_out,                    \* the estimate of fetch_raydium_quote, before slippage
    amount_out_minimum,
    total_rewards, total_supply,
    accounts,                      \* the snapshot the plan of this cycle is built from
    distribution_data, spawned, tasks,
    mint_supply,                   \* the raw supply behind total_supply
    \* history of the running cycle
    pre_admin_bal, issued,
    \* history of the cycle before it: its swap was submitted and rejected
    prev_swap_failed

cfgVars == << sol_admin_private_key, mint_address, interval_secs, tax_program_id,
              raydium_data >>
chainVars == << decimals, reward_decimals, withheld, mint_withheld, admin_bal,
                reward_bal, atas >>
jobVars == << harvested_amount, input_token, output_token, amount_out,
              amount_out_minimum >>
distVars == << total_rewards, total_supply, accounts, distribution_data,
               spawned, tasks, mint_supply >>
mainVars == << last_log, cycle, join_error, prev_swap_failed >>

VARIABLES
    \* get_token_accounts (scripts/cron-bot/src/utils.rs)
    gta_pc,
    limit, current_page,           \* the arguments of the request being built
    holder_count,                  \* token accounts the indexer holds for the mint
    num_fetched,                   \* accounts.len()
    short_seen,                    \* a page came back with fewer than `limit` accounts
    page,                          \* the argument `page`: where the loop starts
    gta_accounts,                  \* the map `accounts` of get_token_accounts
    \* history of get_token_accounts
    last_page,                     \* the page of the last answered request
    in_order,                      \* each answered request was for the page after the one before
    received,                      \* the token accounts of the answers, in the order received
    \* the tax_token program (programs/tax-token/src)
    state,                         \* the ProgramState account
    ix,                            \* the instruction being processed
    ix_pc,                         \* where its handler stands
    fee_config,                    \* what transfer_fee_initialize was given
    cpi_log,                       \* the CPI calls of the instruction that went through
    last_update                    \* the last update_program_state call and its outcome

pageVars == << gta_pc, limit, current_page, holder_count, num_fetched, short_seen,
              page, gta_accounts, last_page, in_order, received >>
progVars == << state, ix, ix_pc, fee_config, cpi_log, last_update >>

vars == << cfgVars, chainVars, pc, result, mainVars, jobVars, distVars,
           pre_admin_bal, issued, pageVars, progVars >>

TypeOK ==
    /\ pc \in STRING
    /\ admin_bal \in 0..MaxRaw /\ reward_bal \in 0..MaxRaw
    /\ withheld \in 0..MaxRaw /\ mint_withheld \in 0..MaxRaw

\* get_token_accounts is not running (main.rs never calls it).
PagesIdle ==
    /\ gta_pc = "idle"
    /\ limit = 0
    /\ current_page = 0
    /\ holder_count = 0
    /\ num_fetched = 0
    /\ short_seen = FALSE
    /\ page = 0
    /\ gta_accounts = {}
    /\ last_page = NoValue
    /\ in_order = TRUE
    /\ received = << >>

\* No instruction of the tax_token program is being processed.
\* The ProgramState account before `init` has created it: no discriminator,
\* every field zero.
NoState ==
    [initialized |-> FALSE, authority |-> "none", token_mint |-> "none",
     reward_mint |-> "none", treasury |-> "none", reward_treasury |-> "none",
     last_distribution_time |-> 0, total_tax_collected |-> 0]

NoInstruction ==
    [variant |-> "none", authority |-> "none", reward_mint |-> "none",
     total_supply |-> 0, data_is_empty |-> TRUE]

\* The mint has no TransferFeeConfig extension.
NoFeeConfig ==
    [set |-> FALSE, transfer_fee_config_authority |-> "none",
     withdraw_withheld_authority |-> "none", basis_points |-> 0,
     maximum_fee |-> 0]

NoUpdate ==
    [called |-> FALSE, signer |-> "none", authority |-> "None",
     reward_mint |-> "None", ok |-> FALSE]

ProgramIdle ==
    /\ state = NoState
    /\ ix = NoInstruction
    /\ ix_pc = "idle"
    /\ fee_config = NoFeeConfig
    /\ cpi_log = << >>
    /\ last_update = NoUpdate

Init ==
    /\ PagesIdle
    /\ ProgramIdle
    /\ sol_admin_private_key = "unread"
    /\ mint_address = "unread"
    /\ interval_secs = "unread"
    /\ tax_program_id \in TaxIdValues
    /\ raydium_data = "unfetched"
    /\ decimals \in DecimalsValues
    /\ reward_decimals \in DecimalsValues
    /\ withheld = 0 /\ mint_withheld = 0 /\ admin_bal = 0 /\ reward_bal = 0
    /\ atas = {}
    /\ pc = "startup"
    /\ last_log = "none"
    /\ cycle = 0
    /\ join_error = 0
    /\ prev_swap_failed = FALSE
    /\ result = "none"
    /\ harvested_amount = NoValue
    /\ input_token = "none"
    /\ output_token = "none"
    /\ amount_out = NoValue
    /\ amount_out_minimum = NoValue
    /\ total_rewards = NoValue
    /\ total_supply = NoValue
    /\ accounts = << >>
    /\ distribution_data = << >>
    /\ spawned = 0
    /\ tasks = << >>
    /\ mint_supply = NoValue
    /\ pre_admin_bal = 0
    /\ issued = {}

\* ------------------------------------------------------------ main loop ---
\* process_job returns `result` to the match in main.
Return(res) ==
    /\ pc' = "returned"
    /\ result' = res

\* Continue process_job at `target`, or leave it with an error.
Goto(target) ==
    IF target = "Err"
    THEN Return("Err")
    ELSE pc' = target /\ UNCHANGED result

\* A panic on the main task unwinds through #[tokio::main]: the process ends.
Panic(cause) ==
    /\ pc' = cause
    /\ UNCHANGED result

Instr(kind, who, amount, arg, ok) ==
    [kind |-> kind, who |-> who, amount |-> amount, arg |-> arg, ok |-> ok]

\* main, up to the loop: the expect calls on the environment and on the pool
\* download, and tokio's interval(), which panics on a zero period.
StartupAborts(key, mint, fetched, interval) ==
    \/ key = "unset"
    \/ mint = "unset"
    \/ ~fetched
    \/ interval \in {"not-a-number", "0"}

\* env::var("INTERVAL").unwrap_or("3600".to_string())
IntervalOrDefault(interval) == IF interval = "unset" THEN "3600" ELSE interval

\* The values of SOLANA_ADMIN_PRIVATE_KEY, TOKEN_MINT and INTERVAL are read
\* from the environment here, once.
Startup ==
    /\ pc = "startup"
    /\ \E key \in KeyValues, mint \in MintValues, interval \in IntervalValues,
          fetched \in BOOLEAN, pools \in PoolValues :
         IF StartupAborts(key, mint, fetched, IntervalOrDefault(interval))
         THEN /\ pc' = "startup_abort"
              /\ UNCHANGED << sol_admin_private_key, mint_address, interval_secs,
                              raydium_data >>
         ELSE /\ pc' = "tick"
              /\ sol_admin_private_key' = key
              /\ mint_address' = mint
              /\ interval_secs' = IntervalOrDefault(interval)
              /\ raydium_data' = pools
    /\ UNCHANGED << pageVars, progVars, tax_program_id, chainVars, result, mainVars, jobVars, distVars,
                    pre_admin_bal, issued >>

\* interval.tick().await resolves and main calls process_job.  While the bot
\* waited, holders transferred the taxed token and `f` was withheld as fees.
Tick ==
    /\ pc = "tick"
    /\ cycle < MaxCycles
    /\ cycle' = cycle + 1
    /\ pc' = "job"
    /\ \E f \in FeeValues :
         /\ withheld + mint_withheld + admin_bal + f <= MaxRaw
         /\ withheld' = withheld + f
    /\ pre_admin_bal' = admin_bal
    /\ last_log' = "none"
    /\ UNCHANGED << pageVars, progVars, cfgVars, decimals, reward_decimals, mint_withheld, admin_bal,
                    reward_bal, atas, result, join_error, prev_swap_failed, jobVars,
                    distVars,
                    issued >>

\* process_job up to its first await: the keypair, the token mint, the program
\* ids and the two client.program(..)? calls.
SetupResult(key, mint, tax_id, programs_ok) ==
    IF KeypairFromBase58Panics(key) THEN "panic_keypair"
    ELSE IF ~PubkeyFromStr(mint) THEN "Err"
    ELSE IF \E i \in DOMAIN ProgramIdLiterals(tax_id) :
                ~PubkeyFromStr(ProgramIdLiterals(tax_id)[i]) THEN "Err"
    ELSE IF ~programs_ok THEN "Err"
    ELSE "get_mint_account"

JobSetup ==
    /\ pc = "job"
    /\ \E programs_ok \in BOOLEAN :
         LET r == SetupResult(sol_admin_private_key, mint_address, tax_program_id,
                              programs_ok)
         IN  IF r = "panic_keypair" THEN Panic(r) ELSE Goto(r)
    /\ UNCHANGED << pageVars, progVars, cfgVars, chainVars, mainVars, jobVars, distVars, pre_admin_bal,
                    issued >>

\* rpc_client.get_account(&token_mint).await?
GetMintAccount ==
    /\ pc = "get_mint_account"
    /\ \E ok \in BOOLEAN : Goto(IF ok THEN "harvest" ELSE "Err")
    /\ UNCHANGED << pageVars, progVars, cfgVars, chainVars, mainVars, jobVars, distVars, pre_admin_bal,
                    issued >>

\* Mutant of AfterHarvest: the `?` after harvest(...).await dropped.
AfterHarvestUnchecked(ok) == "withdraw"

\* harvest(...).await?
AfterHarvest(ok) == IF ok THEN "withdraw" ELSE "Err"

\* The harvest transaction moves the fees withheld in holder accounts into
\* the mint.
Harvest ==
    /\ pc = "harvest"
    /\ \E ok \in BOOLEAN :
         /\ issued' = issued \cup {Instr("harvest", 0, 0, 0, ok)}
         /\ IF ok
            THEN /\ mint_withheld' = mint_withheld + withheld
                 /\ withheld' = 0
            ELSE UNCHANGED << withheld, mint_withheld >>
         /\ Goto(AfterHarvest(ok))
    /\ UNCHANGED << pageVars, progVars, cfgVars, decimals, reward_decimals, admin_bal, reward_bal,
                    atas, mainVars, jobVars, distVars, pre_admin_bal >>

\* Mutant of AfterWithdraw: the `?` after withdraw(...).await dropped.
AfterWithdrawUnchecked(ok) == "read_balance"

\* withdraw(...).await?
AfterWithdraw(ok) == IF ok THEN "read_balance" ELSE "Err"

\* The withdraw transaction moves the fees held by the mint into admin_ata.
Withdraw ==
    /\ pc = "withdraw"
    /\ \E ok \in BOOLEAN :
         /\ issued' = issued \cup {Instr("withdraw", 0, 0, 0, ok)}
         /\ IF ok
            THEN /\ admin_bal' = admin_bal + mint_withheld
                 /\ mint_withheld' = 0
            ELSE UNCHANGED << admin_bal, mint_withheld >>
         /\ Goto(AfterWithdraw(ok))
    /\ UNCHANGED << pageVars, progVars, cfgVars, decimals, reward_decimals, withheld, reward_bal,
                    atas, mainVars, jobVars, distVars, pre_admin_bal >>

\* Mutant of HarvestedAmount: only what came in since the tick is counted.
HarvestedSinceTick(present, balance, dec) ==
    UiAmountOrZero(present, balance - pre_admin_bal, dec)

\* let harvested_amount = get_token_account_balance(&admin_ata) ... as u64
HarvestedAmount(present, balance, dec) == UiAmountOrZero(present, balance, dec)

\* Mutant of SkipCycle: the early return on a zero harvest removed.
SkipCycleNever(h) == FALSE

\* if harvested_amount == 0 { ...; return Ok(()) }
SkipCycle(h) == h = 0

ReadBalance ==
    /\ pc = "read_balance"
    /\ \E ok \in BOOLEAN, present \in BOOLEAN :
         IF ok
         THEN LET h == HarvestedAmount(present, admin_bal, decimals)
              IN  /\ harvested_amount' = h
                  /\ IF SkipCycle(h) THEN Return("Ok") ELSE Goto("select_pool")
         ELSE /\ Goto("Err")
              /\ UNCHANGED harvested_amount
    /\ UNCHANGED << pageVars, progVars, cfgVars, chainVars, mainVars, input_token, output_token,
                    amount_out, amount_out_minimum, distVars, pre_admin_bal,
                    issued >>

\* The (input_token, output_token) pair process_job builds from the pool:
\* "taxed" is token_mint, "other" the other mint of the pool.
SwapTokens(pool) ==
    IF pool = "base"
    THEN [input |-> "taxed", output |-> "other"]
    ELSE [input |-> "other", output |-> "taxed"]

\* The pool lookup, the parsing of the pool's addresses and the two
\* fetch_token_metadata calls.
SelectPool ==
    /\ pc = "select_pool"
    /\ \E fields_ok \in BOOLEAN, metadata_ok \in BOOLEAN :
         IF raydium_data = "none" \/ ~fields_ok \/ ~metadata_ok
         THEN /\ Goto("Err")
              /\ UNCHANGED << input_token, output_token >>
         ELSE /\ input_token' = SwapTokens(raydium_data).input
              /\ output_token' = SwapTokens(raydium_data).output
              /\ Goto("quote")
    /\ UNCHANGED << pageVars, progVars, cfgVars, chainVars, mainVars, harvested_amount, amount_out,
                    amount_out_minimum, distVars, pre_admin_bal, issued >>

\* fetch_raydium_quote: the estimate from the vault balances, with the
\* slippage applied.  process_job passes the base mint of the pool as
\* in_token in both of its branches, so reserve_in is base_balance.
FetchRaydiumQuote(in_amount, base_balance, quote_balance) ==
    ApplySlippage(ConstantProduct(in_amount, base_balance, quote_balance))

\* let amount_out_minimum = (quoted_amount_out as f64 * (1.0 - slippage_tolerance)) as u64
AmountOutMinimum(quoted_amount_out) == ApplySlippage(quoted_amount_out)

Quote ==
    /\ pc = "quote"
    /\ \E ok \in BOOLEAN, base_balance \in ReserveValues, quote_balance \in ReserveValues :
         IF ok
         THEN /\ amount_out' =
                    ConstantProduct(harvested_amount, base_balance, quote_balance)
              /\ amount_out_minimum' =
                    AmountOutMinimum(FetchRaydiumQuote(harvested_amount, base_balance,
                                                       quote_balance))
              /\ Goto("swap")
         ELSE /\ Goto("Err")
              /\ UNCHANGED << amount_out, amount_out_minimum >>
    /\ UNCHANGED << pageVars, progVars, cfgVars, chainVars, mainVars, harvested_amount, input_token,
                    output_token, distVars, pre_admin_bal, issued >>

\* Mutant of AfterSwap: the `?` after swap_clmm(...).await dropped.
AfterSwapUnchecked(ok) == "read_reward"

\* swap_clmm(...).await?
AfterSwap(ok) == IF ok THEN "read_reward" ELSE "Err"

\* The swap transaction moves amount_in out of admin_ata and `out` into
\* output_ata, which is admin_ata again when output_token is the token mint.
\* The pool rejects it when `out` is below amount_out_minimum.
Swap ==
    /\ pc = "swap"
    /\ \E sent \in BOOLEAN, out \in OutValues :
         LET ok == sent /\ out >= amount_out_minimum /\ harvested_amount <= admin_bal
             into_admin == IF output_token = "taxed" THEN out ELSE 0
             into_reward == IF output_token = "taxed" THEN 0 ELSE out
         IN  /\ issued' = issued \cup
                    {Instr("swap", 0, harvested_amount, amount_out_minimum, ok)}
             /\ IF ok
                THEN /\ admin_bal - harvested_amount + into_admin <= MaxRaw
                     /\ reward_bal + into_reward <= MaxRaw
                     /\ admin_bal' = admin_bal - harvested_amount + into_admin
                     /\ reward_bal' = reward_bal + into_reward
                ELSE UNCHANGED << admin_bal, reward_bal >>
             /\ Goto(AfterSwap(ok))
    /\ UNCHANGED << pageVars, progVars, cfgVars, decimals, reward_decimals, withheld, mint_withheld,
                    atas, mainVars, jobVars, distVars, pre_admin_bal >>

\* Mutant of AdminBalanceOf: what the account holds beyond one whole token
\* is not seen.
AdminBalanceUpToWhole(token) ==
    LET held == IF token = "taxed" THEN admin_bal ELSE reward_bal
    IN  IF held > Whole THEN Whole ELSE held

\* The raw balance and the decimals of the admin's account of `token`.
AdminBalanceOf(token) == IF token = "taxed" THEN admin_bal ELSE reward_bal
DecimalsOf(token) == IF token = "taxed" THEN decimals ELSE reward_decimals

\* let reward_balance = get_token_account_balance(&output_ata) ... as u64
ReadReward ==
    /\ pc = "read_reward"
    /\ \E ok \in BOOLEAN, present \in BOOLEAN :
         IF ok
         THEN /\ total_rewards' =
                    UiAmountOrZero(present, AdminBalanceOf(output_token),
                                   DecimalsOf(output_token))
              /\ Goto("get_supply")
         ELSE /\ Goto("Err")
              /\ UNCHANGED total_rewards
    /\ UNCHANGED << pageVars, progVars, cfgVars, chainVars, mainVars, jobVars, total_supply, accounts,
                    distribution_data, spawned, tasks, mint_supply, pre_admin_bal,
                    issued >>

\* ------------------------------------------------- distribute_rewards ---
\* let total_supply = get_token_supply(tax_token_mint) ... ui_amount as u64
DistGetSupply ==
    /\ pc = "get_supply"
    /\ \E ok \in BOOLEAN, present \in BOOLEAN, supply \in SupplyValues :
         IF ok
         THEN /\ mint_supply' = supply
              /\ total_supply' = UiAmountOrZero(present, supply, decimals)
              /\ Goto("get_accounts")
         ELSE /\ Goto("Err")
              /\ UNCHANGED << mint_supply, total_supply >>
    /\ UNCHANGED << pageVars, progVars, cfgVars, chainVars, mainVars, jobVars, total_rewards, accounts,
                    distribution_data, spawned, tasks, pre_admin_bal, issued >>

RECURSIVE SumAmounts(_)
SumAmounts(accts) ==
    IF accts = << >> THEN 0 ELSE Head(accts).amount + SumAmounts(Tail(accts))

\* The token accounts of the mint that get_program_accounts can return while
\* the mint's raw supply is `supply`.
Snapshots(supply) ==
    { accts \in UNION { [1..n -> [owner : Owners, amount : BalanceValues]] :
                            n \in 0..MaxAccounts } :
        SumAmounts(accts) <= supply }

\* Mutant of Reward: the share depends on how many cycles have run.
RewardAfterCycles(balance, rewards, supply) ==
    AsU64((balance * rewards) \div supply + (cycle - 1))

\* (balance as u128 * total_rewards as u128 / total_supply as u128) as u64
Reward(balance, rewards, supply) == AsU64((balance * rewards) \div supply)

\* if balance > 0
HasBalance(balance) == balance > 0

\* Mutant of HasReward: the `if reward > 0` around the push removed.
HasRewardAlways(reward) == TRUE

\* if reward > 0
HasReward(reward) == reward > 0

\* The loop that fills distribution_data.
RECURSIVE DistributionData(_, _, _)
DistributionData(accts, rewards, supply) ==
    IF accts = << >> THEN << >>
    ELSE LET a == Head(accts)
             rest == DistributionData(Tail(accts), rewards, supply)
         IN  IF HasBalance(a.amount) /\ HasReward(Reward(a.amount, rewards, supply))
             THEN << [owner |-> a.owner, reward |-> Reward(a.amount, rewards, supply)] >>
                  \o rest
             ELSE rest

\* What the loop over the first n accounts does when total_supply is 0: the
\* division for the first positive balance panics.
DividesByZero(accts, n, supply) ==
    supply = 0 /\ \E i \in 1..n : HasBalance(accts[i].amount)

\* let accounts = rpc_client.get_program_accounts_with_config(...).await?
DistGetAccounts ==
    /\ pc = "get_accounts"
    /\ \E ok \in BOOLEAN, accts \in Snapshots(mint_supply) :
         IF ok
         THEN /\ accounts' = accts
              /\ Goto("build_plan")
         ELSE /\ Goto("Err")
              /\ UNCHANGED accounts
    /\ UNCHANGED << pageVars, progVars, cfgVars, chainVars, mainVars, jobVars, total_rewards,
                    total_supply, distribution_data, spawned, tasks, mint_supply,
                    pre_admin_bal, issued >>

\* `for (_pubkey, account) in accounts`, which fills distribution_data.
\* `bad` is the first account whose data Account::unpack rejects (0: none);
\* the loop returns the error when it gets there.
BuildPlan ==
    /\ pc = "build_plan"
    /\ \E bad \in 0..Len(accounts) :
         IF DividesByZero(accounts, IF bad = 0 THEN Len(accounts) ELSE bad - 1,
                          total_supply)
         THEN /\ Panic("panic_divide_by_zero")
              /\ UNCHANGED << accounts, distribution_data, mint_supply >>
         ELSE IF bad # 0
         THEN /\ Goto("Err")
              /\ UNCHANGED << accounts, distribution_data, mint_supply >>
         ELSE LET plan == DistributionData(accounts, total_rewards, total_supply)
              IN  /\ distribution_data' = plan
                  /\ UNCHANGED accounts
                  /\ mint_supply' = NoValue
                  /\ Goto(IF Len(plan) = 0 THEN "join" ELSE "spawn")
    /\ UNCHANGED << pageVars, progVars, cfgVars, chainVars, mainVars, jobVars, total_rewards,
                    total_supply, spawned, tasks, pre_admin_bal, issued >>

Min(a, b) == IF a < b THEN a ELSE b

\* What the async block of one tokio::spawn captures, and where it stands.
Task(entry) == [pc |-> "check", owner |-> entry.owner, reward |-> entry.reward]

\* One pass of `for chunk in distribution_data.chunks(BATCH_SIZE)`: a
\* tokio::spawn per entry of the chunk, none of them awaited here.
SpawnChunk ==
    /\ pc = "spawn"
    /\ spawned < Len(distribution_data)
    /\ LET upto == Min(spawned + BATCH_SIZE, Len(distribution_data))
       IN  /\ spawned' = upto
           /\ tasks' = tasks \o [i \in 1..(upto - spawned) |->
                                    Task(distribution_data[spawned + i])]
           /\ Goto(IF upto = Len(distribution_data) THEN "join" ELSE "spawn")
    /\ UNCHANGED << pageVars, progVars, cfgVars, chainVars, mainVars, jobVars, total_rewards,
                    total_supply, accounts, distribution_data, mint_supply,
                    pre_admin_bal, issued >>

\* The token account of `owner` for the reward mint `token`.
HolderAta(owner, token) == << owner, token >>

\* if rpc_client.get_account(&holder_ata).await.is_err(): the account is
\* missing, or the read failed.
AfterCheck(is_err) == IF is_err THEN "create" ELSE "transfer"

\* The task up to the end of its only await: client.program(..)?, then the
\* read of holder_ata.
TaskCheck(i) ==
    /\ tasks[i].pc = "check"
    /\ \E program_ok \in BOOLEAN, read_ok \in BOOLEAN :
         LET is_err == HolderAta(tasks[i].owner, output_token) \notin atas \/ ~read_ok
         IN  tasks' = [tasks EXCEPT
                         ![i].pc = IF program_ok THEN AfterCheck(is_err) ELSE "err"]
    /\ UNCHANGED << pageVars, progVars, cfgVars, chainVars, pc, result, mainVars, jobVars, total_rewards,
                    total_supply, accounts, distribution_data, spawned, mint_supply,
                    pre_admin_bal, issued >>

\* The create_associated_token_account transaction and its `?`: the chain
\* rejects it when the account exists already.
AfterCreate(ok) == IF ok THEN "transfer" ELSE "err"

TaskCreate(i) ==
    /\ tasks[i].pc = "create"
    /\ LET ata == HolderAta(tasks[i].owner, output_token)
       IN  \E sent \in BOOLEAN :
             LET ok == sent /\ ata \notin atas
             IN  /\ issued' = issued \cup {Instr("create", i, 0, tasks[i].owner, ok)}
                 /\ atas' = IF ok THEN atas \cup {ata} ELSE atas
                 /\ tasks' = [tasks EXCEPT ![i].pc = AfterCreate(ok)]
    /\ UNCHANGED << pageVars, progVars, cfgVars, decimals, reward_decimals, withheld, mint_withheld,
                    admin_bal, reward_bal, pc, result, mainVars, jobVars,
                    total_rewards, total_supply, accounts, distribution_data,
                    spawned, mint_supply, pre_admin_bal >>

\* The spl_token transfer transaction of `reward` raw units from
\* admin_reward_ata to holder_ata: the chain rejects it when the destination
\* is missing or the source holds less than the amount.
TaskTransfer(i) ==
    /\ tasks[i].pc = "transfer"
    /\ LET ata == HolderAta(tasks[i].owner, output_token)
           amount == tasks[i].reward
       IN  \E sent \in BOOLEAN :
             LET ok == /\ sent
                       /\ ata \in atas
                       /\ amount <= AdminBalanceOf(output_token)
                 paid == IF ok THEN amount ELSE 0
             IN  /\ issued' = issued \cup
                        {Instr("transfer", i, amount, tasks[i].owner, ok)}
                 /\ admin_bal' = IF output_token = "taxed"
                                 THEN admin_bal - paid ELSE admin_bal
                 /\ reward_bal' = IF output_token = "taxed"
                                  THEN reward_bal ELSE reward_bal - paid
                 /\ tasks' = [tasks EXCEPT ![i].pc = IF ok THEN "ok" ELSE "err"]
    /\ UNCHANGED << pageVars, progVars, cfgVars, decimals, reward_decimals, withheld, mint_withheld,
                    atas, pc, result, mainVars, jobVars, total_rewards, total_supply,
                    accounts, distribution_data, spawned, mint_supply, pre_admin_bal >>

IsRunning(t) == t.pc \in {"check", "create", "transfer"}

\* Mutant of JoinReady: a try_join_all, which resolves at the first error.
JoinReadyOnFirstError(ts) ==
    \/ \A i \in DOMAIN ts : ~IsRunning(ts[i])
    \/ \E i \in DOMAIN ts : ts[i].pc = "err"

\* join_all(tasks).await resolves when every task has finished.
JoinReady(ts) == \A i \in DOMAIN ts : ~IsRunning(ts[i])

\* Mutant of JoinResult: only the result of the first task is looked at.
JoinResultOfFirstTask(ts) ==
    IF ts # << >> /\ ts[1].pc = "err" THEN "Err" ELSE "Ok"

\* for result in results { result??; }
JoinResult(ts) == IF \E i \in DOMAIN ts : ts[i].pc = "err" THEN "Err" ELSE "Ok"

\* The error the loop returns: that of the first failed task in the order of
\* `tasks`, which is the order of distribution_data.
FirstError(ts) ==
    IF \E i \in DOMAIN ts : ts[i].pc = "err"
    THEN CHOOSE i \in DOMAIN ts :
             /\ ts[i].pc = "err"
             /\ \A j \in 1..(i - 1) : ts[j].pc # "err"
    ELSE 0

JoinAll ==
    /\ pc = "join"
    /\ JoinReady(tasks)
    /\ Return(JoinResult(tasks))
    /\ join_error' = FirstError(tasks)
    /\ UNCHANGED << pageVars, progVars, cfgVars, chainVars, last_log, cycle,
                    prev_swap_failed, jobVars, distVars,
                    pre_admin_bal, issued >>

\* The match of main on the result of process_job.
LogLine(res) == IF res = "Ok" THEN "Job completed" ELSE "Job failed"

\* main logs the result and loops back to interval.tick().await.  The frame
\* of process_job is gone; a task that were still running would go on running,
\* detached.
MainMatch ==
    /\ pc = "returned"
    /\ last_log' = LogLine(result)
    /\ pc' = "tick"
    /\ result' = "none"
    /\ harvested_amount' = NoValue
    /\ input_token' = "none"
    /\ output_token' = "none"
    /\ amount_out' = NoValue
    /\ amount_out_minimum' = NoValue
    /\ join_error' = 0
    /\ prev_swap_failed' = \E x \in issued : x.kind = "swap" /\ ~x.ok
    /\ total_rewards' = NoValue
    /\ total_supply' = NoValue
    /\ accounts' = << >>
    /\ distribution_data' = << >>
    /\ spawned' = 0
    /\ tasks' = SelectSeq(tasks, IsRunning)
    /\ mint_supply' = NoValue
    /\ issued' = {}
    /\ UNCHANGED << pageVars, progVars, cfgVars, chainVars, cycle, pre_admin_bal >>

Next ==
    \/ Startup
    \/ Tick
    \/ JobSetup
    \/ GetMintAccount
    \/ Harvest
    \/ Withdraw
    \/ ReadBalance
    \/ SelectPool
    \/ Quote
    \/ Swap
    \/ ReadReward
    \/ DistGetSupply
    \/ DistGetAccounts
    \/ BuildPlan
    \/ SpawnChunk
    \/ \E i \in DOMAIN tasks : TaskCheck(i)
    \/ \E i \in DOMAIN tasks : TaskCreate(i)
    \/ \E i \in DOMAIN tasks : TaskTransfer(i)
    \/ JoinAll
    \/ MainMatch

Spec == Init /\ [][Next]_vars

\* ------------------------------------------- the fan-out of one cycle ---
\* distribute_rewards with a snapshot of up to MaxPlan holder accounts, which
\* is more than one chunk of BATCH_SIZE.  The specification starts where the
\* loop over `accounts` starts, in a first cycle whose harvest, withdraw and
\* swap went through, and follows one schedule of the runtime: the tasks are
\* polled one at a time in spawn order and no RPC call fails.  The spawning
\* loop and the join are those of Spec.
MaxPlan == 26

\* n token accounts holding one unit each, of a mint without decimals.
FanOutAccounts(n) ==
    [i \in 1..n |-> [owner |-> IF i % 2 = 1 THEN "alice" ELSE "bob", amount |-> 1]]

FanOutInit ==
    \E n \in 1..MaxPlan :
        /\ PagesIdle
        /\ ProgramIdle
        /\ sol_admin_private_key = "WellFormedKey"
        /\ mint_address = "TokenMintAddress"
        /\ interval_secs = "3600"
        /\ tax_program_id = "DeployedTaxProgramId"
        /\ raydium_data = "base"
        /\ decimals = 0
        /\ reward_decimals = 0
        /\ withheld = 0 /\ mint_withheld = 0 /\ admin_bal = 0
        /\ reward_bal = n
        /\ atas = {}
        /\ pc = "build_plan"
        /\ last_log = "none"
        /\ cycle = 1
        /\ join_error = 0
        /\ prev_swap_failed = FALSE
        /\ result = "none"
        /\ harvested_amount = 1
        /\ input_token = "taxed"
        /\ output_token = "other"
        /\ amount_out = 0
        /\ amount_out_minimum = 0
        /\ total_rewards = n
        /\ total_supply = n
        /\ accounts = FanOutAccounts(n)
        /\ distribution_data = << >>
        /\ spawned = 0
        /\ tasks = << >>
        /\ mint_supply = n
        /\ pre_admin_bal = 0
        /\ issued = { Instr("harvest", 0, 0, 0, TRUE),
                      Instr("withdraw", 0, 0, 0, TRUE),
                      Instr("swap", 0, 1, 0, TRUE) }

\* Every account of the snapshot unpacks.
FanOutBuildPlan == BuildPlan /\ pc' = "spawn"

\* Task i is the next one the runtime polls.
InTurn(i) == IsRunning(tasks[i]) /\ \A j \in 1..(i - 1) : ~IsRunning(tasks[j])

FanOutTaskCheck(i) ==
    /\ InTurn(i)
    /\ TaskCheck(i)
    /\ tasks'[i].pc = AfterCheck(HolderAta(tasks[i].owner, output_token) \notin atas)

FanOutTaskCreate(i) ==
    /\ InTurn(i)
    /\ TaskCreate(i)
    /\ tasks'[i].pc = "transfer"

FanOutTaskTransfer(i) ==
    /\ InTurn(i)
    /\ TaskTransfer(i)
    /\ tasks'[i].pc = "ok"

FanOutNext ==
    \/ FanOutBuildPlan
    \/ SpawnChunk
    \/ \E i \in DOMAIN tasks : FanOutTaskCheck(i)
    \/ \E i \in DOMAIN tasks : FanOutTaskCreate(i)
    \/ \E i \in DOMAIN tasks : FanOutTaskTransfer(i)
    \/ JoinAll
    \/ MainMatch

SpecFanOut == FanOutInit /\ [][FanOutNext]_vars

\* The bot is not running.
BotIdle ==
    /\ sol_admin_private_key = "unread"
    /\ mint_address = "unread"
    /\ interval_secs = "unread"
    /\ tax_program_id = "DeployedTaxProgramId"
    /\ raydium_data = "unfetched"
    /\ decimals = 0 /\ reward_decimals = 0
    /\ withheld = 0 /\ mint_withheld = 0 /\ admin_bal = 0 /\ reward_bal = 0
    /\ atas = {}
    /\ pc = "off"
    /\ last_log = "none"
    /\ cycle = 0
    /\ join_error = 0
    /\ prev_swap_failed = FALSE
    /\ result = "none"
    /\ harvested_amount = NoValue
    /\ input_token = "none"
    /\ output_token = "none"
    /\ amount_out = NoValue
    /\ amount_out_minimum = NoValue
    /\ total_rewards = NoValue
    /\ total_supply = NoValue
    /\ accounts = << >>
    /\ distribution_data = << >>
    /\ spawned = 0
    /\ tasks = << >>
    /\ mint_supply = NoValue
    /\ pre_admin_bal = 0
    /\ issued = {}

\* ------------------------------------------------- get_token_accounts ---
\* The page loop of utils.rs.  The indexer holds holder_count token accounts
\* of the mint and serves them page by page: page p (the first page is 1)
\* holds the accounts (p-1)*limit+1 .. p*limit, as far as they exist.
MaxLimit == 3
MaxHolders == 6
\* Width, in bits, that stands for the 32 bits of current_page: u32.
PageBits == 4

PageMod == Pow(2, PageBits)

Max(a, b) == IF a > b THEN a ELSE b

\* data.result.token_accounts.len() of page p.
Served(held, p, l) == Max(0, Min(l, held - (Max(p, 1) - 1) * l))

\* if num_accounts < limit as usize { break; }
LastPage(num_accounts, l) == num_accounts < l

\* The `page` argument of a call.
StartPages == {0, 1, 2}
\* account.amount of the accounts of one answer, in raw units.
PageAmounts == {1, 2}
\* The indexer lists the accounts of the mint in one order; an account that
\* enters the list ahead of the page asked for moves the others back by one
\* place, so that the page starts with the account the page before ended
\* with.
Shifts(p) == IF Max(p, 1) > 1 THEN {0, 1} ELSE {0}
OwnerOf(address) == IF address % 2 = 1 THEN "alice" ELSE "bob"

\* data.result.token_accounts of page p.
TokenAccounts(held, p, l, shift, amount) ==
    [k \in 1..Served(held, p, l) |->
        [address |-> (Max(p, 1) - 1) * l + k - shift,
         amount |-> amount,
         owner |-> OwnerOf((Max(p, 1) - 1) * l + k - shift)]]

\* account.amount as f64 / 1_000_000_000.0
Balance(amount) ==
    [units |-> amount \div 1000000000, billionths |-> amount % 1000000000]

\* (account.address, (balance, account.owner))
Entry(account) ==
    [address |-> account.address, balance |-> Balance(account.amount),
     owner |-> account.owner]

\* A loop body that keeps the entry an address already has.
InsertKeepingTheFirst(map, account) ==
    IF \E e \in map : e.address = account.address
    THEN map
    ELSE map \cup {Entry(account)}

\* accounts.insert(account.address, (balance, account.owner))
Insert(map, account) ==
    {e \in map : e.address # account.address} \cup {Entry(account)}

\* for account in data.result.token_accounts { .. }
RECURSIVE InsertAll(_, _)
InsertAll(map, token_accounts) ==
    IF token_accounts = << >>
    THEN map
    ELSE InsertAll(Insert(map, Head(token_accounts)), Tail(token_accounts))

PagesInit ==
    /\ BotIdle
    /\ ProgramIdle
    /\ gta_pc = "start"
    /\ limit \in 0..MaxLimit
    /\ page \in StartPages
    /\ current_page = page
    /\ holder_count \in 0..MaxHolders
    /\ num_fetched = 0
    /\ short_seen = FALSE
    /\ gta_accounts = {}
    /\ last_page = NoValue
    /\ in_order = TRUE
    /\ received = << >>

\* env::var("HELIUS_RPC").expect(..), Client::new()
GtaStart ==
    /\ gta_pc = "start"
    /\ \E url_set \in BOOLEAN :
         gta_pc' = IF url_set THEN "request" ELSE "panic_env"
    /\ UNCHANGED << limit, current_page, holder_count, num_fetched, short_seen,
                    page, gta_accounts, last_page, in_order, received,
                    progVars, cfgVars, chainVars, pc, result, mainVars, jobVars,
                    distVars, pre_admin_bal, issued >>

\* One pass of the loop: the request, its three `?`, the status test, the
\* inserts, the test for the last page and `current_page += 1`.  The
\* increment of a u32 at u32::MAX panics in a build with overflow checks and
\* wraps to 0 in a build without.
RequestPage ==
    /\ gta_pc = "request"
    /\ \E answered \in BOOLEAN, overflow_checks \in BOOLEAN,
          shift \in Shifts(current_page), amount \in PageAmounts :
         IF ~answered
         THEN /\ gta_pc' = "err"
              /\ UNCHANGED << current_page, num_fetched, short_seen, gta_accounts,
                              last_page, in_order, received >>
         ELSE LET token_accounts == TokenAccounts(holder_count, current_page,
                                                  limit, shift, amount)
                  num_accounts == Len(token_accounts)
              IN  /\ gta_accounts' = InsertAll(gta_accounts, token_accounts)
                  /\ num_fetched' = Cardinality(gta_accounts')
                  /\ received' = received \o token_accounts
                  /\ last_page' = current_page
                  /\ in_order' = (in_order /\ current_page =
                                     IF last_page = NoValue THEN page
                                     ELSE last_page + 1)
                  /\ short_seen' = LastPage(num_accounts, limit)
                  /\ IF LastPage(num_accounts, limit)
                     THEN gta_pc' = "done" /\ UNCHANGED current_page
                     ELSE IF current_page + 1 < PageMod
                     THEN gta_pc' = "request" /\ current_page' = current_page + 1
                     ELSE IF overflow_checks
                     THEN gta_pc' = "panic_overflow" /\ UNCHANGED current_page
                     ELSE gta_pc' = "request" /\ current_page' = 0
    /\ UNCHANGED << limit, holder_count, page, progVars, cfgVars, chainVars, pc,
                    result, mainVars, jobVars, distVars, pre_admin_bal, issued >>

PagesNext ==
    \/ GtaStart
    \/ RequestPage

\* The runtime keeps polling the future of get_token_accounts.
SpecPages == PagesInit /\ [][PagesNext]_vars /\ WF_vars(PagesNext)

\* ------------------------------------------------- the tax_token program ---
\* programs/tax-token/src: the two initialize handlers (lib.rs initialize,
\* instructions/initialize.rs process_initialize) and
\* process_update_program_state.  The runtime processes one instruction on
\* the ProgramState account at a time; an instruction that returns an error
\* or panics fails its transaction, and nothing it wrote is kept.

\* Width, in bits, that stands for the 128 bits of InitTokenParams.total_supply:
\* twice the width of u64.
U128Bits == 2 * U64Bits
U128Mod == Pow(2, U128Bits)

\* const TAX_BASIS_POINT: u16 = 600
TAX_BASIS_POINT == 600

\* Signers and the Option<Pubkey> arguments of update_program_state.
Keys == {"deployer", "successor", "stranger"}
Mints == {"RewardMintA", "RewardMintB"}
OptionKeys == Keys \cup {"None"}
OptionMints == Mints \cup {"None"}
Variants == {"initialize", "process_initialize"}
\* params.total_supply: zero, below ten, ten, the last value whose tenth
\* fits 64 bits, the first whose tenth does not, and the largest u128.
TotalSupplyValues ==
    {0, 9, 10, 10 * U64Mod - 1, 10 * U64Mod, U128Mod - 1}

\* (params.total_supply / 10) as u64
MaximumFee(supply) == AsU64(supply \div 10)

\* The CPI calls of a handler, in the order of its statements.
InitializeSteps ==
    << "create_account", "transfer_fee_initialize", "initialize_mint2",
       "check_mint_data" >>

\* A handler that initializes the mint data before the extensions.
ProcessInitializeStepsMintFirst(data_is_empty) ==
    (IF data_is_empty THEN << "create_account" >> ELSE << >>)
        \o << "initialize_mint2", "transfer_fee_initialize",
              "metadata_pointer_initialize", "check_mint_data", "transfer",
              "token_metadata_initialize" >>

ProcessInitializeSteps(data_is_empty) ==
    (IF data_is_empty THEN << "create_account" >> ELSE << >>)
        \o << "transfer_fee_initialize", "metadata_pointer_initialize",
              "initialize_mint2", "check_mint_data", "transfer",
              "token_metadata_initialize" >>

StepsOf(i) ==
    IF i.variant = "initialize"
    THEN InitializeSteps
    ELSE ProcessInitializeSteps(i.data_is_empty)

\* A handler that records the treasury argument as the authority.
StateWrittenTreasuryAsAuthority(i) ==
    [initialized |-> TRUE, authority |-> "tax_treasury",
     token_mint |-> "TokenMintAddress", reward_mint |-> i.reward_mint,
     treasury |-> "tax_treasury", reward_treasury |-> "reward_treasury",
     last_distribution_time |-> 1, total_tax_collected |-> 0]

\* What the handler writes to ctx.accounts.state before its first CPI call.
\* process_initialize sets three fields and leaves the others as `init`
\* zeroed them.
StateWritten(i) ==
    IF i.variant = "initialize"
    THEN [initialized |-> TRUE, authority |-> i.authority,
          token_mint |-> "TokenMintAddress", reward_mint |-> i.reward_mint,
          treasury |-> "tax_treasury", reward_treasury |-> "reward_treasury",
          last_distribution_time |-> 1, total_tax_collected |-> 0]
    ELSE [initialized |-> TRUE, authority |-> i.authority,
          token_mint |-> "TokenMintAddress", reward_mint |-> i.reward_mint,
          treasury |-> "none", reward_treasury |-> "none",
          last_distribution_time |-> 0, total_tax_collected |-> 0]

\* The arguments transfer_fee_initialize is called with.
FeeConfigOf(i) ==
    [set |-> TRUE, transfer_fee_config_authority |-> i.authority,
     withdraw_withheld_authority |-> i.authority,
     basis_points |-> TAX_BASIS_POINT,
     maximum_fee |-> MaximumFee(i.total_supply)]

\* check_mint_data: the two assert_eq! on the extension data read back from
\* the mint account.
CheckMintData(config, i) ==
    /\ config.set
    /\ config.transfer_fee_config_authority = i.authority
    /\ config.withdraw_withheld_authority = i.authority

Between == ix_pc \in {"idle", "done", "failed", "rejected"}

\* An Initialize whose state account is `init_if_needed`.
InitAllowedIfNeeded(st) == st.initialized \in BOOLEAN

\* #[account(init, seeds = [b"program_state"], bump)]: the state account is
\* created at the one address the seeds derive, which works only while no
\* account exists there.
InitAllowed(st) == ~st.initialized

ProgramInit ==
    /\ BotIdle
    /\ PagesIdle
    /\ ProgramIdle

\* An initialize transaction arrives.  When `init` cannot create the state
\* account the transaction is turned away before the handler runs;
\* otherwise the handler is entered, where try_calculate_account_len,
\* Rent::get and Clock::get return with `?` before any CPI call.
InitializeBegin ==
    /\ Between
    /\ IF InitAllowed(state)
       THEN \E variant \in Variants, authority \in Keys, mint \in Mints,
               supply \in TotalSupplyValues, empty \in BOOLEAN,
               sysvars_ok \in BOOLEAN :
              /\ ix' = [variant |-> variant, authority |-> authority,
                        reward_mint |-> mint, total_supply |-> supply,
                        data_is_empty |-> empty]
              /\ cpi_log' = << >>
              /\ ix_pc' = IF sysvars_ok THEN "running" ELSE "failed"
       ELSE /\ ix_pc' = "rejected"
            /\ UNCHANGED << ix, cpi_log >>
    /\ UNCHANGED << state, fee_config, last_update, pageVars, cfgVars, chainVars,
                    pc, result, mainVars, jobVars, distVars, pre_admin_bal, issued >>

\* The next CPI call of the handler.  create_account fails on an account
\* that holds data; check_mint_data panics when an authority of the
\* extension is not the signer; any call can return an error, which `?`
\* propagates.
InitializeStep ==
    /\ ix_pc = "running"
    /\ Len(cpi_log) < Len(StepsOf(ix))
    /\ LET step == StepsOf(ix)[Len(cpi_log) + 1]
           last == Len(cpi_log) + 1 = Len(StepsOf(ix))
       IN  \E accepted \in BOOLEAN :
             LET ok == /\ accepted
                       /\ step = "create_account" => ix.data_is_empty
                       /\ step = "check_mint_data" => CheckMintData(fee_config, ix)
             IN  IF ok
                 THEN /\ cpi_log' = Append(cpi_log, step)
                      /\ fee_config' = IF step = "transfer_fee_initialize"
                                       THEN FeeConfigOf(ix)
                                       ELSE fee_config
                      /\ ix_pc' = IF last THEN "done" ELSE "running"
                      /\ state' = IF last THEN StateWritten(ix) ELSE state
                 ELSE /\ cpi_log' = cpi_log
                      /\ fee_config' = NoFeeConfig
                      /\ ix_pc' = "failed"
                      /\ state' = state
    /\ UNCHANGED << ix, last_update, pageVars, cfgVars, chainVars, pc, result,
                    mainVars, jobVars, distVars, pre_admin_bal, issued >>

\* A handler without the assert_eq!.
AuthorizedAnySigner(st, signer) == st.authority \in Keys

\* assert_eq!(state.authority, ctx.accounts.authority.key())
Authorized(st, signer) == st.authority = signer

\* A handler that stores reward_mint.unwrap_or_default().
UpdatedStateRewardMintAlways(st, authority, reward_mint) ==
    [st EXCEPT !.authority = IF authority # "None" THEN authority ELSE @,
               !.reward_mint = IF reward_mint # "None" THEN reward_mint ELSE "none"]

\* if authority.is_some() { .. }  if reward_mint.is_some() { .. }
UpdatedState(st, authority, reward_mint) ==
    [st EXCEPT !.authority = IF authority # "None" THEN authority ELSE @,
               !.reward_mint = IF reward_mint # "None" THEN reward_mint ELSE @]

\* An update_program_state transaction.  Account<ProgramState> does not
\* load an account that was never initialized; the assert_eq! panics when
\* the signer is not the stored authority.
ProcessUpdateProgramState ==
    /\ Between
    /\ \E signer \in Keys, authority \in OptionKeys, reward_mint \in OptionMints :
        LET ok == state.initialized /\ Authorized(state, signer)
        IN  /\ last_update' = [called |-> TRUE, signer |-> signer,
                               authority |-> authority,
                               reward_mint |-> reward_mint, ok |-> ok]
            /\ state' = IF ok
                        THEN UpdatedState(state, authority, reward_mint)
                        ELSE state
    /\ UNCHANGED << ix, ix_pc, fee_config, cpi_log, pageVars, cfgVars, chainVars,
                    pc, result, mainVars, jobVars, distVars, pre_admin_bal, issued >>

ProgramNext ==
    \/ InitializeBegin
    \/ InitializeStep
    \/ ProcessUpdateProgramState

SpecProgram == ProgramInit /\ [][ProgramNext]_vars

\* ------------------------------------------------------------- claims ---
\* The transactions of kind `kind` the running cycle has submitted.
Issued(kind) == { x \in issued : x.kind = kind }
SomeOk(kind) == \E x \in Issued(kind) : x.ok
SomeFailed(kind) == \E x \in Issued(kind) : ~x.ok
HolderInstructions == Issued("create") \cup Issued("transfer")

RECURSIVE SumRewards(_)
SumRewards(plan) ==
    IF plan = << >> THEN 0 ELSE Head(plan).reward + SumRewards(Tail(plan))

\* distribute_rewards has built distribution_data from the snapshot.
PlanBuilt == pc \in {"spawn", "join"}

\* floor(balance * total_rewards / total_supply), in unbounded integers.
ExactShare(balance) == (balance * total_rewards) \div total_supply

\* The plan that holds, in snapshot order, the exact share of every holder
\* whose balance and exact share are positive.
RECURSIVE ExactPlan(_)
ExactPlan(accts) ==
    IF accts = << >> THEN << >>
    ELSE LET a == Head(accts)
         IN  IF a.amount > 0 /\ ExactShare(a.amount) > 0
             THEN << [owner |-> a.owner, reward |-> ExactShare(a.amount)] >>
                  \o ExactPlan(Tail(accts))
             ELSE ExactPlan(Tail(accts))

\* C1: the rewards of the plan never add up to more than total_rewards,
\* whatever total_rewards, total_supply and the snapshot are.
C1_PlanWithinTotalRewards ==
    PlanBuilt => SumRewards(distribution_data) <= total_rewards

\* C2: the plan gives every holder with a positive balance b exactly
\* floor(b * total_rewards / total_supply), the narrowing to u64 changing
\* nothing.
C2_RewardIsExactShare ==
    PlanBuilt => distribution_data = ExactPlan(accounts)

\* A snapshot account with a positive balance and a positive floored share.
Eligible(a) ==
    /\ a.amount > 0
    /\ total_supply > 0
    /\ total_rewards > 0
    /\ ExactShare(a.amount) > 0

PlannedFor(o) ==
    Cardinality({ i \in DOMAIN distribution_data : distribution_data[i].owner = o })

EligibleFor(o) ==
    Cardinality({ i \in DOMAIN accounts :
                    accounts[i].owner = o /\ Eligible(accounts[i]) })

\* C3: no transfer of a zero amount is ever submitted: every plan entry has a
\* positive reward, an account whose balance or floored share is zero gets no
\* plan entry, and every create and transfer belongs to a plan entry.
C3_NoZeroAmountTransfer ==
    /\ \A x \in Issued("transfer") : x.amount > 0
    /\ \A x \in HolderInstructions :
         /\ x.who \in DOMAIN distribution_data
         /\ distribution_data[x.who].owner = x.arg
    /\ \A i \in DOMAIN distribution_data : distribution_data[i].reward > 0
    /\ \A o \in Owners : PlannedFor(o) <= EligibleFor(o)

\* A holder with a positive balance whose share floors to zero was left out,
\* and the one planned holder was paid.
C3_Witness ==
    /\ Len(accounts) = 2
    /\ \A i \in DOMAIN accounts : accounts[i].amount > 0
    /\ Len(distribution_data) = 1
    /\ SomeOk("transfer")

\* C4: when harvested_amount is 0 the cycle ends there as a success, with no
\* swap and no distribution.
C4_ZeroHarvestSkipsCycle ==
    harvested_amount = 0 =>
        /\ pc = "returned"
        /\ result = "Ok"
        /\ LogLine(result) = "Job completed"
        /\ Issued("swap") = {}
        /\ HolderInstructions = {}
        /\ distribution_data = << >>
        /\ tasks = << >>

C4_Witness ==
    /\ harvested_amount = 0
    /\ pc = "returned"
    /\ SomeOk("harvest")
    /\ SomeOk("withdraw")

\* The process has ended on a panic of the main task.
Terminated == pc \in {"panic_keypair", "panic_divide_by_zero"}

\* C5: nothing that goes wrong inside a cycle, malformed key material and
\* arithmetic faults included, ends the process.
C5_CycleFailureNeverTerminates == ~Terminated

\* C6: a rejected swap ends the cycle as a failure that main logs, with no
\* distribution instruction submitted, and the process stays in its loop.
C6_RejectedSwapFailsCycle ==
    SomeFailed("swap") =>
        /\ pc = "returned"
        /\ result = "Err"
        /\ LogLine(result) = "Job failed"
        /\ HolderInstructions = {}
        /\ distribution_data = << >>
        /\ tasks = << >>

C6_Witness ==
    /\ pc = "returned"
    /\ \E x \in Issued("swap") : ~x.ok /\ x.amount > 0

\* The snapshot holds a positive balance while total_supply was read as 0.
ZeroSupplyWithHolder ==
    /\ total_supply = 0
    /\ \E i \in DOMAIN accounts : accounts[i].amount > 0

\* C7: a total supply read as 0 with a holder of a positive balance in the
\* snapshot is a failure of the cycle, which returns to main; the process
\* does not crash.
C7_ZeroSupplyIsRecoverable ==
    ZeroSupplyWithHolder => pc \in {"build_plan", "returned"}

\* C8: harvest, withdraw, swap and distribution run in this order, each only
\* after the one before it has succeeded.
C8_StepOrder ==
    /\ Issued("withdraw") # {} => SomeOk("harvest")
    /\ Issued("swap") # {} => SomeOk("withdraw")
    /\ total_rewards # NoValue => SomeOk("swap")
    /\ (HolderInstructions # {} \/ tasks # << >>) => SomeOk("swap")

C8_Witness ==
    /\ SomeOk("harvest")
    /\ SomeOk("withdraw")
    /\ SomeOk("swap")
    /\ SomeOk("create")
    /\ SomeOk("transfer")

\* C9: harvested_amount is the balance of the admin fee account after the
\* withdraw minus its balance before the harvest.
C9_HarvestedIsDifference ==
    (harvested_amount > 0 /\ Issued("swap") = {}) =>
        harvested_amount =
            UiAmount(admin_bal, decimals) - UiAmount(pre_admin_bal, decimals)

\* C10: no transfer task of a cycle is still running once distribute_rewards
\* has returned, with a success or with an error: cycles never overlap.
C10_NoTaskOutlivesCycle ==
    pc \notin {"spawn", "join"} => \A i \in DOMAIN tasks : ~IsRunning(tasks[i])

\* A cycle that failed on one task and still waited for the other.
C10_Witness ==
    /\ pc = "returned"
    /\ result = "Err"
    /\ \E i, j \in DOMAIN tasks : tasks[i].pc = "err" /\ tasks[j].pc = "ok"

\* C11: a failed harvest or a failed withdraw aborts the cycle: nothing is
\* submitted after it (no withdraw after a failed harvest, no swap, no create,
\* no transfer), and the error is what main's match receives and logs.
C11_FailedHarvestOrWithdrawAborts ==
    (SomeFailed("harvest") \/ SomeFailed("withdraw")) =>
        /\ pc = "returned"
        /\ result = "Err"
        /\ LogLine(result) = "Job failed"
        /\ SomeFailed("harvest") => Issued("withdraw") = {}
        /\ harvested_amount = NoValue
        /\ Issued("swap") = {}
        /\ HolderInstructions = {}
        /\ tasks = << >>

\* The withdraw failed after a harvest that went through.
C11_Witness ==
    /\ pc = "returned"
    /\ SomeOk("harvest")
    /\ SomeFailed("withdraw")

\* C12: every swap a cycle submits sells the taxed token for the other mint
\* of the pool, whichever side of the pool the taxed token is on; the reward
\* token is never the taxed token.
C12_SwapSellsTaxedToken ==
    Issued("swap") # {} => (input_token = "taxed" /\ output_token = "other")

\* C13: the minimum the swap is submitted with is the constant-product
\* estimate with the slippage tolerance taken off once.
C13_SlippageAppliedOnce ==
    \A x \in Issued("swap") : x.arg = ApplySlippage(amount_out)

Failed(ts) == {i \in DOMAIN ts : ts[i].pc = "err"}

\* C14: when the distribution step returns, every entry of the plan has had
\* its task spawned and every task has finished, failed ones or not; the step
\* returns an error exactly when some task failed, and the error is that of
\* the failed task that comes first in plan order.
C14_AllTasksFinishBeforeTheError ==
    (pc = "returned" /\ tasks # << >>) =>
        /\ Len(tasks) = Len(distribution_data)
        /\ \A i \in DOMAIN tasks :
             /\ tasks[i].pc \in {"ok", "err"}
             /\ tasks[i].owner = distribution_data[i].owner
        /\ (result = "Err") <=> (Failed(tasks) # {})
        /\ (join_error = 0) <=> (Failed(tasks) = {})
        /\ \A i \in Failed(tasks) : join_error <= i
        /\ join_error # 0 => join_error \in Failed(tasks)

\* The first task failed, and the second one still made its transfer.
C14_Witness ==
    /\ pc = "returned"
    /\ result = "Err"
    /\ Len(tasks) = 2
    /\ tasks[1].pc = "err"
    /\ tasks[2].pc = "ok"
    /\ \E x \in Issued("transfer") : x.who = 2 /\ x.ok

InFlight == {i \in DOMAIN tasks : IsRunning(tasks[i])}

\* C15: whatever the number of recipients, no more than one batch of
\* BATCH_SIZE transfer tasks is in flight at any time.
C15_AtMostOneBatchInFlight == Cardinality(InFlight) <= BATCH_SIZE

\* C16: in every interleaving of the transfer tasks the admin reward account
\* holds at least the amount of each transfer that is about to be submitted,
\* so that its balance never goes below zero and no transfer is turned down
\* for lack of funds.
C16_RewardAccountCoversEachTransfer ==
    /\ reward_bal >= 0
    /\ admin_bal >= 0
    /\ \A i \in DOMAIN tasks :
         tasks[i].pc = "transfer" => tasks[i].reward <= AdminBalanceOf(output_token)

\* Task i goes from `from` to `to` in this step.
Moves(i, from, to) ==
    /\ i \in DOMAIN tasks'
    /\ tasks[i].pc = from
    /\ tasks'[i].pc = to

\* C17: a task goes on to create the recipient's reward-token account only
\* when that account is missing at the time of the check; it goes on to the
\* transfer only when the account was there at the check or when its create
\* went through; and a task whose create failed submits no transfer.
C17_CreateOnlyWhenMissing ==
    [][\A i \in DOMAIN tasks :
         LET ata == HolderAta(tasks[i].owner, output_token)
         IN  /\ Moves(i, "check", "create") => ata \notin atas
             /\ Moves(i, "check", "transfer") => ata \in atas
             /\ Moves(i, "create", "transfer") =>
                    \E x \in issued' : x.kind = "create" /\ x.who = i /\ x.ok
             /\ Moves(i, "create", "err") =>
                    \A x \in issued' : ~(x.kind = "transfer" /\ x.who = i)
      ]_vars

\* What floor division leaves of total_rewards once every holder of the
\* snapshot has its floored share.
Dust(accts) == total_rewards - SumRewards(ExactPlan(accts))

\* C18: the plan holds the floored shares and nothing else: one entry per
\* positive floored share, and what the plan leaves of total_rewards is the
\* remainder of the floor divisions, which goes to nobody (supply 3, rewards
\* 10, three holders of 1: 3/3/3, sum 9, 1 left).
C18_PlanLeavesTheDust ==
    PlanBuilt =>
        /\ Len(distribution_data) = Len(ExactPlan(accounts))
        /\ total_rewards - SumRewards(distribution_data) = Dust(accounts)

\* The u64 the code keeps of floor(b * r / s).
ShareOf(b, r, s) == ((b * r) \div s) % Pow(2, U64Bits)

\* The plan as a function of the snapshot alone: balances in order, r, s.
RECURSIVE PlanOf(_, _, _)
PlanOf(accts, r, s) ==
    IF accts = << >> THEN << >>
    ELSE LET a == Head(accts)
         IN  IF a.amount > 0 /\ ShareOf(a.amount, r, s) > 0
             THEN << [owner |-> a.owner, reward |-> ShareOf(a.amount, r, s)] >>
                  \o PlanOf(Tail(accts), r, s)
             ELSE PlanOf(Tail(accts), r, s)

\* C19: the plan is a function of the snapshot (the balances in their order,
\* total_rewards, total_supply) and of nothing else: in every cycle, whatever
\* the cycles before it did, it is the same sequence of (recipient, reward).
C19_PlanIsAFunctionOfTheSnapshot ==
    PlanBuilt => distribution_data = PlanOf(accounts, total_rewards, total_supply)

\* A second cycle has built a non-empty plan, after a first cycle that went
\* as far as creating a recipient's account.
C19_Witness ==
    /\ cycle = 2
    /\ PlanBuilt
    /\ distribution_data # << >>
    /\ tasks = << >>
    /\ atas # {}

CeilDiv(m, n) == (m + n - 1) \div n

\* C20: with M holder accounts of the mint and a batch size N, the cycle has
\* submitted ceil(M / N) harvest instructions, for every batch size N; M is
\* read off the accounts the cycle's own snapshot of the mint lists.
C20_HarvestOncePerBatch ==
    (PlanBuilt /\ accounts # << >>) =>
        \A n \in 1..MaxAccounts :
            Cardinality(Issued("harvest")) = CeilDiv(Len(accounts), n)

\* The configuration the process runs with is usable: the key decodes and
\* the mint address parses.
ConfigWellFormed ==
    /\ ~KeypairFromBase58Panics(sol_admin_private_key)
    /\ PubkeyFromStr(mint_address)

\* C21: a missing or malformed configuration value stops the process at
\* startup, so that every cycle runs with a usable configuration and no cycle
\* fails over it; and nothing else than configuration ends the process.
C21_ConfigErrorsAbortAtStartup ==
    /\ cycle > 0 => ConfigWellFormed
    /\ pc # "panic_divide_by_zero"

GtaEnded == gta_pc \in {"done", "err", "panic_env", "panic_overflow"}

\* C22: the page loop stops at the first page that holds fewer accounts than
\* `limit` and asks for no page after it, and it comes to an end whatever
\* `limit` is and however many accounts the indexer holds.
C22_PageLoopEnds ==
    /\ [](short_seen <=> gta_pc = "done")
    /\ <>GtaEnded

\* C23: a rejected swap leaves in the admin account the balance the cycle
\* measured; and when the next cycle gets to its swap, its amount_in is the
\* measure of the whole balance, which is what the rejected swap left (the
\* balance at the tick) plus what the cycle itself withdrew.
C23_FailedSwapIsCarriedOver ==
    /\ SomeFailed("swap") =>
           /\ UiAmount(admin_bal, decimals) = harvested_amount
           /\ admin_bal >= pre_admin_bal
    /\ (prev_swap_failed /\ pc = "swap") =>
           /\ UiAmount(pre_admin_bal, decimals) >= 1
           /\ admin_bal >= pre_admin_bal
           /\ harvested_amount =
                  UiAmount(pre_admin_bal + (admin_bal - pre_admin_bal), decimals)

\* The second cycle is about to swap what the rejected swap of the first
\* left together with what it has harvested itself.
C23_Witness ==
    /\ prev_swap_failed
    /\ pc = "swap"
    /\ admin_bal > pre_admin_bal
    /\ harvested_amount > UiAmount(pre_admin_bal, decimals)
    /\ harvested_amount > UiAmount(admin_bal - pre_admin_bal, decimals)

\* C24: the admin reward account loses units only through the transfers of a
\* plan, so what a plan leaves stays there; and the total_rewards a cycle
\* reads is the measure of all the account holds then, not of what the swap
\* of the cycle has just added.
C24_DustStaysAndIsMeasuredAgain ==
    [][/\ reward_bal' < reward_bal =>
              \E x \in issued' \ issued :
                  /\ x.kind = "transfer"
                  /\ x.ok
                  /\ x.amount = reward_bal - reward_bal'
       /\ (pc = "read_reward" /\ total_rewards' > 0) =>
              total_rewards' =
                  IF output_token = "taxed"
                  THEN UiAmount(admin_bal, decimals)
                  ELSE UiAmount(reward_bal, reward_decimals)
      ]_vars

\* The second cycle has read a total_rewards that no single swap puts out:
\* it holds what the distribution of the first cycle left.
C24_Witness ==
    /\ cycle = 2
    /\ pc = "get_supply"
    /\ atas # {}
    /\ output_token = "other"
    /\ reward_bal > Whole
    /\ total_rewards = UiAmount(reward_bal, reward_decimals)
    /\ total_rewards > Whole

CreatesFor(owner) == { x \in Issued("create") : x.arg = owner }

\* C29: the tasks of one cycle submit at most one create-account instruction
\* for the reward-token account of any owner, however they interleave and
\* however many accounts of the snapshot that owner holds.
C29_OneCreatePerDestination ==
    \A o \in Owners : Cardinality(CreatesFor(o)) <= 1

\* An update_program_state transaction was processed in this step.
UpdateProcessed == last_update' # last_update

\* C25: a call of update_program_state succeeds exactly when its signer is
\* the authority the state stores when the call arrives, so that after a
\* change of authority the previous one is turned away and the new one is
\* let in; a call that is turned away leaves the state as it was.
C25_OnlyTheStoredAuthorityUpdates ==
    [][UpdateProcessed =>
         /\ last_update'.ok <=>
                (state.initialized /\ last_update'.signer = state.authority)
         /\ ~last_update'.ok => state' = state]_vars

\* The authority was handed over, and the key that initialized the program
\* has just been turned away.
C25_Witness ==
    /\ state.initialized
    /\ state.authority # ix.authority
    /\ last_update.called
    /\ last_update.signer = ix.authority
    /\ ~last_update.ok

\* C26: a successful update_program_state stores the authority argument
\* when there is one and the reward_mint argument when there is one, and
\* changes nothing else of the state; with neither argument the state is
\* what it was.
C26_UpdateWritesOnlyWhatItIsGiven ==
    [][UpdateProcessed /\ last_update'.ok =>
         /\ state'.authority = IF last_update'.authority # "None"
                               THEN last_update'.authority
                               ELSE state.authority
         /\ state'.reward_mint = IF last_update'.reward_mint # "None"
                                 THEN last_update'.reward_mint
                                 ELSE state.reward_mint
         /\ state'.initialized = state.initialized
         /\ state'.token_mint = state.token_mint
         /\ state'.treasury = state.treasury
         /\ state'.reward_treasury = state.reward_treasury
         /\ state'.last_distribution_time = state.last_distribution_time
         /\ state'.total_tax_collected = state.total_tax_collected]_vars

\* A successful call that carried a new authority and no reward mint: the
\* authority is the new one, the reward mint is the one of initialize.
C26_Witness ==
    /\ last_update.ok
    /\ last_update.authority # "None"
    /\ last_update.reward_mint = "None"
    /\ state.authority = last_update.authority
    /\ state.authority # ix.authority
    /\ state.reward_mint = ix.reward_mint

\* The place of a CPI call among those of the instruction that went
\* through (0: it did not run).
Pos(step) ==
    IF \E i \in 1..Len(cpi_log) : cpi_log[i] = step
    THEN CHOOSE i \in 1..Len(cpi_log) : cpi_log[i] = step
    ELSE 0
\* `later` ran only after `earlier` went through.
RanAfter(later, earlier) == Pos(later) > 0 => (0 < Pos(earlier) /\ Pos(earlier) < Pos(later))
CreatesTheMint == ix.variant = "initialize" \/ ix.data_is_empty

\* C27: in both initialize handlers the creation of the mint account comes
\* first, the transfer-fee extension (and, in process_initialize, the
\* metadata pointer) is initialized before the mint data, and the token
\* metadata only after the mint data; a step that fails ends the
\* instruction: no step runs after it and the state account is not kept.
C27_InitializeStepsInOrder ==
    /\ [](/\ Pos("create_account") \in {0, 1}
          /\ (CreatesTheMint /\ cpi_log # << >>) => Pos("create_account") = 1
          /\ RanAfter("initialize_mint2", "transfer_fee_initialize")
          /\ ix.variant = "process_initialize" =>
                /\ RanAfter("initialize_mint2", "metadata_pointer_initialize")
                /\ RanAfter("token_metadata_initialize", "initialize_mint2")
          /\ ix.variant = "initialize" =>
                /\ Pos("metadata_pointer_initialize") = 0
                /\ Pos("token_metadata_initialize") = 0
          /\ ix_pc = "failed" => ~state.initialized)
    /\ [][ix_pc = "failed" => Len(cpi_log') <= Len(cpi_log)]_vars

\* process_initialize ran to its end on a mint account it created: seven
\* CPI calls, the token metadata last.
C27_Witness ==
    /\ ix.variant = "process_initialize"
    /\ ix_pc = "done"
    /\ Pos("create_account") = 1
    /\ Pos("token_metadata_initialize") = 7

\* C28: the transfer fee process_initialize configures is the 10% its log
\* lines announce: 1000 basis points.
C28_FeeIsTenPercent ==
    (ix.variant = "process_initialize" /\ fee_config.set) =>
        fee_config.basis_points = 1000

\* C30: the maximum fee handed to transfer_fee_initialize is the tenth of
\* total_supply, rounded down, whatever the total_supply.
C30_MaximumFeeIsATenthOfTheSupply ==
    fee_config.set => fee_config.maximum_fee = ix.total_supply \div 10

\* An initialize transaction was processed, or one of its steps, in this
\* step.
InitializeProcessed == ix_pc' # ix_pc \/ ix' # ix \/ cpi_log' # cpi_log

\* C31: once the state account exists, every initialize is turned away
\* before its handler and leaves the state, with its authority, token mint
\* and reward mint, as it was.
C31_InitializeAtMostOnce ==
    [][(state.initialized /\ InitializeProcessed) =>
          /\ ix_pc' = "rejected"
          /\ state' = state]_vars

\* A second initialize was turned away after the authority had been handed
\* over: the state still holds the successor.
C31_Witness ==
    /\ ix_pc = "rejected"
    /\ state.initialized
    /\ state.authority # ix.authority

\* C32: when an initialize succeeds, the transfer-fee config authority and
\* the withdraw-withheld authority of the mint are both the authority
\* signer, who is also the authority the state records; check_mint_data
\* went through only on a mint whose two authorities are the signer.
C32_AuthoritiesAreTheSigner ==
    /\ []((ix_pc \in {"running", "done"} /\ Pos("check_mint_data") > 0) =>
             CheckMintData(fee_config, ix))
    /\ [][(ix_pc = "running" /\ ix_pc' = "done") =>
            /\ fee_config'.transfer_fee_config_authority = ix.authority
            /\ fee_config'.withdraw_withheld_authority = ix.authority
            /\ state'.authority = ix.authority]_vars

\* The initialize of lib.rs has just succeeded for the successor key.
C32_Witness ==
    /\ ix.variant = "initialize"
    /\ ix_pc = "done"
    /\ ix.authority = "successor"
    /\ state.authority = "successor"
    /\ fee_config.withdraw_withheld_authority = "successor"
    /\ ~last_update.called

\* C33: in a cycle whose admin key and token mint address are well formed
\* and whose client.program calls succeed, process_job gets past the
\* parsing of its program ids to its first RPC call, and, when a cycle got
\* as far as withdraw, harvest went through before it.
C33_SetupReachesHarvest ==
    /\ (/\ pc = "job"
        /\ ~KeypairFromBase58Panics(sol_admin_private_key)
        /\ PubkeyFromStr(mint_address)) =>
           SetupResult(sol_admin_private_key, mint_address, tax_program_id, TRUE)
               = "get_mint_account"
    /\ Issued("withdraw") # {} => SomeOk("harvest")

\* The entries of the accounts received, each address with the values of
\* its last occurrence.
LastOccurrences(seq) ==
    { Entry(seq[i]) : i \in { i \in DOMAIN seq :
                                \A j \in DOMAIN seq : j > i => seq[j].address # seq[i].address } }

\* C34: when get_token_accounts returns its map, the requests it made were
\* for the pages page, page + 1, ... up to the page that came back short,
\* and the map holds one entry for each address among the accounts of those
\* pages and no other, with the values of the last occurrence of the
\* address.
C34_MapHoldsTheAccountsOfThePages ==
    gta_pc = "done" =>
        /\ in_order
        /\ last_page = current_page
        /\ current_page >= page
        /\ gta_accounts = LastOccurrences(received)
        /\ \A e1, e2 \in gta_accounts : e1.address = e2.address => e1 = e2
        /\ {e.address : e \in gta_accounts} = {received[i].address : i \in DOMAIN received}
        /\ num_fetched = Cardinality({received[i].address : i \in DOMAIN received})

\* A call that returned after more than one page, with an address that came
\* twice with two amounts: the map holds the later one.
C34_Witness ==
    /\ gta_pc = "done"
    /\ current_page > page
    /\ \E i, j \in DOMAIN received :
         /\ i < j
         /\ received[i].address = received[j].address
         /\ received[i].amount # received[j].amount
         /\ \A k \in DOMAIN received : k > j => received[k].address # received[j].address
         /\ Entry(received[j]) \in gta_accounts
         /\ Entry(received[i]) \notin gta_accounts
====
